---- MODULE Spec2Model ----
(***************************************************************************)
(* Model of src/clap/source.rs: ClapConfig, the config Source that turns   *)
(* a clap ArgMatches (plus an optional metadata table of ValueKind hints)  *)
(* into a Map<String, Value>.                                              *)
(*                                                                         *)
(* Option<T> is modelled as a sequence of length 0 (None) or 1 (Some).     *)
(* crate::error::Result<T> is modelled as a record whose tag is "Ok" or    *)
(* "Err"; a Rust panic (unwrap / expect on None) is the third tag "Panic". *)
(***************************************************************************)
EXTENDS Integers, Sequences, FiniteSets, TLC

\* Largest number of occurrences of one string argument.
MaxOcc == 2

\* Argument names and raw argument strings used to populate the store.
Keys == {"input", "tag"}
Strs == {"tagone", "tagtwo"}

\* ValueKind tags a metadata entry can carry (only the tag is inspected).
ValueKinds == {"String", "Array", "Boolean", "Table"}

SeqsUpTo(S, n) == UNION {[1..m -> S] : m \in 0..n}

Perms(S) == {f \in [1..Cardinality(S) -> S] : \A i, j \in 1..Cardinality(S) : f[i] = f[j] => i = j}

VARIABLES arg_matches, metadata, pc, keys, idx, clap_args, result, prev, prevKeys

vars == <<arg_matches, metadata, pc, keys, idx, clap_args, result, prev, prevKeys>>

----------------------------------------------------------------------------
(* Values and results *)

VKBoolean(b) == [kind |-> "Boolean", b |-> b, s |-> "", a |-> <<>>]

VKString(s) == [kind |-> "String", b |-> FALSE, s |-> s, a |-> <<>>]

VKArray(a) == [kind |-> "Array", b |-> FALSE, s |-> "", a |-> a]

VKNil == [kind |-> "Nil", b |-> FALSE, s |-> "", a |-> <<>>]

\* Value::new(Some(uri), kind)
Value_new(origin, vk) == [origin |-> origin, vk |-> vk]

NilValue == Value_new("", VKNil)

Ok(v) == [tag |-> "Ok", value |-> v, msg |-> ""]

Err(m) == [tag |-> "Err", value |-> NilValue, msg |-> m]

Panic(m) == [tag |-> "Panic", value |-> NilValue, msg |-> m]

----------------------------------------------------------------------------
(* The argument store (clap ArgMatches) as the code reads it.  An argument *)
(* retrievable by name has an optional type id and its raw values.         *)

\* get_one reads only the first value, so one value is all a boolean or an
\* argument of another type needs to hold.  An argument may be present with
\* no value at all (get_one is then None); for an argument whose type is
\* neither bool nor String, get_one::<String> either yields a string or
\* fails, and the store decides which.
ArgDescrs ==
    {[type_id |-> "none", bools |-> <<>>, strs |-> <<>>]}
    \cup {[type_id |-> "bool", bools |-> b, strs |-> <<>>] : b \in SeqsUpTo(BOOLEAN, 1)}
    \cup {[type_id |-> "String", bools |-> <<>>, strs |-> s] : s \in SeqsUpTo(Strs, MaxOcc)}
    \cup {[type_id |-> "other", bools |-> <<>>, strs |-> s] : s \in SeqsUpTo(Strs, 1)}

ArgMatchesSet ==
    {[ids |-> I, args |-> f] : I \in SUBSET Keys, f \in UNION {[D -> ArgDescrs] : D \in SUBSET Keys}}

\* metadata: Option<HashMap<String, ValueKind>>
NoMetadata == [some |-> FALSE, map |-> [k \in {} |-> "String"]]

Metadatas ==
    {NoMetadata} \cup {[some |-> TRUE, map |-> f] : f \in UNION {[D -> ValueKinds] : D \in SUBSET Keys}}

\* ClapConfig::new
new(am) == [arg_matches |-> am, metadata |-> NoMetadata]

\* ClapConfig::new_with_metadata
new_with_metadata(am, md) == [arg_matches |-> am, metadata |-> [some |-> TRUE, map |-> md]]

\* self.arg_matches.get_keys(): the enumerated keys, in some order
get_keys(am) == Perms(am.ids)

\* self.arg_matches.get_arg_by_name(key)
get_arg_by_name(am, key) == IF key \in DOMAIN am.args THEN <<am.args[key]>> ELSE <<>>

\* self.arg_matches.get_one::<bool>(key)
get_one_bool(am, key) ==
    IF key \in DOMAIN am.args /\ am.args[key].bools # <<>>
    THEN <<am.args[key].bools[1]>> ELSE <<>>

\* self.arg_matches.get_one::<String>(key): the first occurrence
get_one_String(am, key) ==
    IF key \in DOMAIN am.args /\ am.args[key].strs # <<>>
    THEN <<am.args[key].strs[1]>> ELSE <<>>

\* self.arg_matches.get_many::<String>(key): all occurrences in order
get_many_String(am, key) ==
    IF key \in DOMAIN am.args THEN <<am.args[key].strs>> ELSE <<>>

----------------------------------------------------------------------------
(* Resolution of one key *)

\* map_collect collecting the occurrences back to front
map_collect_reversed(uri, values) ==
    [i \in 1..Len(values) |-> Value_new(uri, VKString(values[Len(values) + 1 - i]))]

\* values.map(|s| Value::new(Some(uri), ValueKind::String(s.to_string()))).collect()
map_collect(uri, values) == [i \in 1..Len(values) |-> Value_new(uri, VKString(values[i]))]

\* parse_multiple_values_default without the single-value case
parse_multiple_values_default_always_array(am, uri, key, values) ==
    Ok(Value_new(uri, VKArray(map_collect(uri, values))))

parse_multiple_values_default(am, uri, key, values) ==
    IF Len(values) = 1
    THEN LET one == get_one_String(am, key)
         IN  IF one = <<>> THEN Panic("unwrap on None")
             ELSE Ok(Value_new(uri, VKString(one[1])))
    ELSE Ok(Value_new(uri, VKArray(map_collect(uri, values))))

\* parse_multiple_values_as_array whose Array arm still infers from the count
parse_multiple_values_as_array_by_count(am, uri, key, values, md) ==
    IF key \notin DOMAIN md THEN Panic("Expected a metadata key")
    ELSE CASE md[key] = "Array" -> parse_multiple_values_default(am, uri, key, values)
           [] md[key] = "String" ->
                LET one == get_one_String(am, key)
                IN  IF one = <<>> THEN Panic("unwrap on None")
                    ELSE Ok(Value_new(uri, VKString(one[1])))
           [] OTHER -> Err("Unsupported ValueKind")

\* parse_multiple_values_as_array whose String arm keeps the last occurrence
parse_multiple_values_as_array_last(am, uri, key, values, md) ==
    IF key \notin DOMAIN md THEN Panic("Expected a metadata key")
    ELSE CASE md[key] = "Array" -> Ok(Value_new(uri, VKArray(map_collect(uri, values))))
           [] md[key] = "String" ->
                IF values = <<>> THEN Panic("unwrap on None")
                ELSE Ok(Value_new(uri, VKString(values[Len(values)])))
           [] OTHER -> Err("Unsupported ValueKind")

\* parse_multiple_values_as_array whose wildcard arm falls back to the default
parse_multiple_values_as_array_fallback(am, uri, key, values, md) ==
    IF key \notin DOMAIN md THEN Panic("Expected a metadata key")
    ELSE CASE md[key] = "Array" -> Ok(Value_new(uri, VKArray(map_collect(uri, values))))
           [] md[key] = "String" ->
                LET one == get_one_String(am, key)
                IN  IF one = <<>> THEN Panic("unwrap on None")
                    ELSE Ok(Value_new(uri, VKString(one[1])))
           [] OTHER -> parse_multiple_values_default(am, uri, key, values)

parse_multiple_values_as_array(am, uri, key, values, md) ==
    IF key \notin DOMAIN md THEN Panic("Expected a metadata key")
    ELSE CASE md[key] = "Array" -> Ok(Value_new(uri, VKArray(map_collect(uri, values))))
           [] md[key] = "String" ->
                LET one == get_one_String(am, key)
                IN  IF one = <<>> THEN Panic("unwrap on None")
                    ELSE Ok(Value_new(uri, VKString(one[1])))
           [] OTHER -> Err("Unsupported ValueKind")

\* parse_arguments that consults the metadata table before the type id
parse_arguments_metadata_first(am, mdo, key, type_id) ==
    LET uri == "clap"
    IN  IF mdo.some /\ key \in DOMAIN mdo.map
        THEN parse_multiple_values_as_array(am, uri, key, am.args[key].strs, mdo.map)
        ELSE IF type_id = "bool"
        THEN LET b == get_one_bool(am, key)
             IN  IF b = <<>> THEN Panic("Couldn't get boolean")
                 ELSE Ok(Value_new(uri, VKBoolean(b[1])))
        ELSE IF type_id = "String"
        THEN parse_multiple_values_default(am, uri, key, am.args[key].strs)
        ELSE LET one == get_one_String(am, key)
             IN  IF one = <<>> THEN Panic("unwrap on None")
                 ELSE Ok(Value_new(uri, VKString(one[1])))

parse_arguments(am, mdo, key, type_id) ==
    LET uri == "clap"
    IN  IF type_id = "bool"
        THEN LET b == get_one_bool(am, key)
             IN  IF b = <<>> THEN Panic("Couldn't get boolean")
                 ELSE Ok(Value_new(uri, VKBoolean(b[1])))
        ELSE IF type_id = "String"
        THEN LET many == get_many_String(am, key)
             IN  IF many = <<>> THEN Panic("unwrap on None")
                 ELSE IF mdo.some
                      THEN IF key \in DOMAIN mdo.map
                           THEN parse_multiple_values_as_array(am, uri, key, many[1], mdo.map)
                           ELSE parse_multiple_values_default(am, uri, key, many[1])
                      ELSE parse_multiple_values_default(am, uri, key, many[1])
        ELSE LET one == get_one_String(am, key)
             IN  IF one = <<>> THEN Panic("unwrap on None")
                 ELSE Ok(Value_new(uri, VKString(one[1])))

get_item(am, mdo, key) ==
    LET res == get_arg_by_name(am, key)
    IN  IF res = <<>> THEN Err("Error retrieving clap arguments")
        ELSE IF res[1].type_id # "none"
             THEN parse_arguments(am, mdo, key, res[1].type_id)
             ELSE Err("No type information")

----------------------------------------------------------------------------
(* collect(): the loop over get_keys() *)

EmptyMap == [k \in {} |-> NilValue]

\* an insert that replaces the whole map by the new entry
map_insert_replace(m, key, value) == [k \in {key} |-> value]

\* an insert that is ignored once the map holds an entry
map_insert_keep_first(m, key, value) ==
    IF DOMAIN m = {} THEN [k \in {key} |-> value] ELSE m

\* clap_args.insert(key, value)
map_insert(m, key, value) == [k \in DOMAIN m \cup {key} |-> IF k = key THEN value ELSE m[k]]

NoResult == [tag |-> "None", map |-> EmptyMap, msg |-> ""]

\* the ClapConfig values either constructor can build
ClapConfigs ==
    {new(am) : am \in ArgMatchesSet}
    \cup {new_with_metadata(am, f) : am \in ArgMatchesSet, f \in UNION {[D -> ValueKinds] : D \in SUBSET Keys}}

Init ==
    /\ \E c \in ClapConfigs : arg_matches = c.arg_matches /\ metadata = c.metadata
    /\ pc = "idle"
    /\ keys = <<>>
    /\ idx = 1
    /\ clap_args = EmptyMap
    /\ result = NoResult
    /\ prev = NoResult
    /\ prevKeys = <<>>

\* collect() is entered: a fresh map, and the store enumerates its keys
CollectBegin ==
    /\ pc = "idle"
    /\ \E order \in get_keys(arg_matches) : keys' = order
    /\ idx' = 1
    /\ clap_args' = EmptyMap
    /\ prev' = result
    /\ prevKeys' = keys
    /\ result' = NoResult
    /\ pc' = "loop"
    /\ UNCHANGED <<arg_matches, metadata>>

\* one iteration: get_item succeeded, the value is inserted
CollectInsert ==
    /\ pc = "loop"
    /\ idx <= Len(keys)
    /\ LET r == get_item(arg_matches, metadata, keys[idx])
       IN  /\ r.tag = "Ok"
           /\ clap_args' = map_insert(clap_args, keys[idx], r.value)
    /\ idx' = idx + 1
    /\ UNCHANGED <<arg_matches, metadata, pc, keys, result, prev, prevKeys>>

\* an iteration that drops a failing key and goes on with the next one
CollectErr_skip ==
    /\ pc = "loop"
    /\ idx <= Len(keys)
    /\ get_item(arg_matches, metadata, keys[idx]).tag = "Err"
    /\ idx' = idx + 1
    /\ UNCHANGED <<arg_matches, metadata, pc, keys, clap_args, result, prev, prevKeys>>

\* one iteration: get_item returned Err, the ? operator returns it
CollectErr ==
    /\ pc = "loop"
    /\ idx <= Len(keys)
    /\ LET r == get_item(arg_matches, metadata, keys[idx])
       IN  /\ r.tag = "Err"
           /\ result' = [tag |-> "Err", map |-> EmptyMap, msg |-> r.msg]
    /\ pc' = "idle"
    /\ UNCHANGED <<arg_matches, metadata, keys, idx, clap_args, prev, prevKeys>>

\* one iteration: get_item panicked, the call unwinds without returning
CollectPanic ==
    /\ pc = "loop"
    /\ idx <= Len(keys)
    /\ LET r == get_item(arg_matches, metadata, keys[idx])
       IN  /\ r.tag = "Panic"
           /\ result' = [tag |-> "Panic", map |-> EmptyMap, msg |-> r.msg]
    /\ pc' = "panicked"
    /\ UNCHANGED <<arg_matches, metadata, keys, idx, clap_args, prev, prevKeys>>

\* the loop is over: Ok(clap_args)
CollectReturn ==
    /\ pc = "loop"
    /\ idx > Len(keys)
    /\ result' = [tag |-> "Ok", map |-> clap_args, msg |-> ""]
    /\ pc' = "idle"
    /\ UNCHANGED <<arg_matches, metadata, keys, idx, clap_args, prev, prevKeys>>

Next ==
    \/ CollectBegin
    \/ CollectInsert
    \/ CollectErr
    \/ CollectPanic
    \/ CollectReturn

Spec == Init /\ [][Next]_vars

----------------------------------------------------------------------------
(* Properties *)

\* the store declares key as a string argument
StringKey(key) == key \in DOMAIN arg_matches.args /\ arg_matches.args[key].type_id = "String"

\* the store declares key as a boolean argument
BoolKey(key) == key \in DOMAIN arg_matches.args /\ arg_matches.args[key].type_id = "bool"

\* the occurrences supplied for key, in supplied order
Occ(key) == arg_matches.args[key].strs

\* the metadata table exists and has an entry for key
HasMeta(key) == metadata.some /\ key \in DOMAIN metadata.map

\* what this store and metadata table resolve key to
Resolve(key) == get_item(arg_matches, metadata, key)

StringOf(s) == [origin |-> "clap", vk |-> [kind |-> "String", b |-> FALSE, s |-> s, a |-> <<>>]]

ArrayOf(ss) ==
    [origin |-> "clap",
     vk |-> [kind |-> "Array", b |-> FALSE, s |-> "", a |-> [i \in 1..Len(ss) |-> StringOf(ss[i])]]]

BooleanOf(b) == [origin |-> "clap", vk |-> [kind |-> "Boolean", b |-> b, s |-> "", a |-> <<>>]]

\* a collect() call has come back with Ok(map)
Returned == pc = "idle" /\ result.tag = "Ok"

\* a collect() call is over, by a return or by a panic
Finished == pc \in {"idle", "panicked"} /\ result.tag # "None"

\* positions of the current enumeration whose key does not resolve to Ok
Failing == {i \in 1..Len(keys) : Resolve(keys[i]).tag # "Ok"}

FirstFailing == CHOOSE i \in Failing : \A j \in Failing : i <= j

\* C1: a string-declared key whose metadata entry has the Array tag resolves
\* to an Array holding every supplied occurrence as a String, in supplied
\* order, for every occurrence count; supplied once, it is a one-element Array.
C1_ArrayHintIsArray ==
    \A key \in Keys :
        (StringKey(key) /\ HasMeta(key) /\ metadata.map[key] = "Array") =>
            /\ Resolve(key) = Ok(ArrayOf(Occ(key)))
            /\ key \in DOMAIN clap_args => clap_args[key] = ArrayOf(Occ(key))
            /\ (Returned /\ key \in DOMAIN result.map) => result.map[key] = ArrayOf(Occ(key))

C1_Witness ==
    \E key \in Keys :
        /\ StringKey(key) /\ HasMeta(key) /\ metadata.map[key] = "Array"
        /\ Len(Occ(key)) = 1
        /\ Returned /\ key \in DOMAIN result.map
        /\ result.map[key].vk.kind = "Array"
        /\ Len(result.map[key].vk.a) = 1
        /\ result.map[key].vk.a[1].vk.s = Occ(key)[1]

\* C2: a string-declared key supplied exactly once and without a metadata
\* entry (no table, or a table lacking the key) resolves to the String equal
\* to that occurrence, never to an Array.
C2_SingleDefaultIsString ==
    \A key \in Keys :
        (StringKey(key) /\ ~HasMeta(key) /\ Len(Occ(key)) = 1) =>
            /\ Resolve(key) = Ok(StringOf(Occ(key)[1]))
            /\ key \in DOMAIN clap_args => clap_args[key] = StringOf(Occ(key)[1])
            /\ (Returned /\ key \in DOMAIN result.map) => result.map[key] = StringOf(Occ(key)[1])

C2_Witness ==
    \E key \in Keys :
        /\ StringKey(key) /\ metadata.some /\ key \notin DOMAIN metadata.map
        /\ Len(Occ(key)) = 1
        /\ Returned /\ key \in DOMAIN result.map
        /\ result.map[key].vk.kind = "String"
        /\ result.map[key].vk.s = Occ(key)[1]

\* C3: a string-declared key supplied N > 1 times and without a metadata
\* entry resolves to an Array of length N whose i-th element is the String
\* of the i-th supplied occurrence.
C3_MultipleDefaultIsArray ==
    \A key \in Keys :
        (StringKey(key) /\ ~HasMeta(key) /\ Len(Occ(key)) > 1) =>
            LET r == Resolve(key)
            IN  /\ r.tag = "Ok"
                /\ r.value.origin = "clap"
                /\ r.value.vk.kind = "Array"
                /\ Len(r.value.vk.a) = Len(Occ(key))
                /\ \A i \in 1..Len(Occ(key)) : r.value.vk.a[i] = StringOf(Occ(key)[i])
                /\ key \in DOMAIN clap_args => clap_args[key] = r.value

C3_Witness ==
    \E key \in Keys :
        /\ StringKey(key) /\ ~HasMeta(key)
        /\ Len(Occ(key)) > 1 /\ Occ(key)[1] # Occ(key)[2]
        /\ Returned /\ key \in DOMAIN result.map
        /\ result.map[key].vk.kind = "Array"
        /\ Len(result.map[key].vk.a) = Len(Occ(key))
        /\ result.map[key].vk.a[2].vk.s = Occ(key)[2]

C5_BooleanIgnoresMetadata ==
    \A key \in Keys :
        (BoolKey(key) /\ arg_matches.args[key].bools # <<>>) =>
            /\ \A md \in Metadatas :
                  get_item(arg_matches, md, key) = Ok(BooleanOf(arg_matches.args[key].bools[1]))
            /\ key \in DOMAIN clap_args => clap_args[key] = BooleanOf(arg_matches.args[key].bools[1])

C5_Witness ==
    \E key \in Keys :
        /\ BoolKey(key) /\ arg_matches.args[key].bools = <<TRUE>>
        /\ HasMeta(key) /\ metadata.map[key] \in {"Array", "Table"}
        /\ Returned /\ key \in DOMAIN result.map
        /\ result.map[key].vk.kind = "Boolean"
        /\ result.map[key].vk.b = TRUE

\* C6: when collect() returns Ok(map), the keys of the map are exactly the
\* keys the store enumerated.
C6_MapKeysAreEnumeratedKeys ==
    Returned => DOMAIN result.map = arg_matches.ids

C6_Witness ==
    /\ Returned
    /\ Cardinality(arg_matches.ids) = 2
    /\ DOMAIN result.map = arg_matches.ids

\* C7: when a key of the enumeration fails to resolve, collect() returns no
\* map; when the first failing key in enumeration order fails with an error
\* (not retrievable, no type information, unsupported metadata tag), collect()
\* stops at that key and returns exactly that error.
C7_FailFast ==
    (Finished /\ Failing # {}) =>
        /\ result.tag # "Ok"
        /\ result.map = EmptyMap
        /\ Resolve(keys[FirstFailing]).tag = "Err" =>
              /\ pc = "idle"
              /\ result.tag = "Err"
              /\ result.msg = Resolve(keys[FirstFailing]).msg
              /\ idx = FirstFailing

C7_Witness ==
    /\ Finished
    /\ result.tag = "Err"
    /\ idx = 2
    /\ clap_args # EmptyMap
    /\ result.map = EmptyMap

\* C8: a string-declared key whose metadata entry has a tag other than String
\* or Array resolves to the error "Unsupported ValueKind", for every
\* occurrence count, and never to a value.
C8_UnsupportedShapeIsErr ==
    \A key \in Keys :
        (StringKey(key) /\ HasMeta(key) /\ metadata.map[key] \notin {"String", "Array"}) =>
            /\ Resolve(key) = Err("Unsupported ValueKind")
            /\ key \notin DOMAIN clap_args
            /\ (Finished /\ idx <= Len(keys) /\ keys[idx] = key) =>
                  (result.tag = "Err" /\ result.msg = "Unsupported ValueKind")

C8_Witness ==
    \E key \in Keys :
        /\ StringKey(key) /\ HasMeta(key) /\ metadata.map[key] = "Boolean"
        /\ Len(Occ(key)) = 1
        /\ Finished /\ idx <= Len(keys) /\ keys[idx] = key
        /\ result.tag = "Err" /\ result.msg = "Unsupported ValueKind"

\* C9 as stated: two collect() calls that returned, against the same store
\* and metadata table, returned equal results whatever the enumeration order
\* of each call.
C9_EqualResults ==
    (pc = "idle" /\ prev.tag \in {"Ok", "Err"} /\ result.tag \in {"Ok", "Err"}) =>
        result = prev

\* C9 amended: of two collect() calls against the same store and metadata
\* table, either both return Ok with equal maps or neither returns Ok,
\* whatever the enumeration order of each call; every value of the map is the
\* key's own resolution; two calls with the same enumeration order end alike.
C9_SuccessIsOrderIndependent ==
    (Finished /\ prev.tag # "None") =>
        /\ (result.tag = "Ok") <=> (prev.tag = "Ok")
        /\ result.tag = "Ok" =>
              /\ result.map = prev.map
              /\ \A key \in DOMAIN result.map : result.map[key] = Resolve(key).value
        /\ keys = prevKeys => result = prev

C9_Witness ==
    /\ Finished /\ prev.tag = "Ok" /\ result.tag = "Ok"
    /\ Len(keys) = 2
    /\ keys # prevKeys
    /\ result.map = prev.map
    /\ DOMAIN result.map = {keys[1], keys[2]}

\* C10 as stated: when collect() comes to a boolean-declared key for which the
\* store has no boolean, the call returns an error value to its caller.
C10_MissingBooleanIsErr ==
    (Finished /\ idx <= Len(keys) /\ BoolKey(keys[idx]) /\ arg_matches.args[keys[idx]].bools = <<>>) =>
        (pc = "idle" /\ result.tag = "Err")

====
